---- MODULE Spec2Model ----
(***************************************************************************)
(* A model of remote_matrix.py: the content model for a remote pixel       *)
(* matrix (MatrixContent -> Frame -> ContentPiece -> Color / Location) and *)
(* its flatten() projection into JSON-representable values.                *)
(*                                                                         *)
(* Python values are represented as follows.                               *)
(*   dict            a TLA+ record (a function on strings); dict equality  *)
(*                   ignores key order, as record equality does            *)
(*   {**a, **b}      DictMerge(a, b): the keys of both, b's value winning  *)
(*   list            a sequence; Python index i is TLA+ index i + 1        *)
(*   object          a record with a cls field naming its class            *)
(*   None            the record None (an omitted argument) or, for a       *)
(*                   reference to a Frame, the reference NoneRef           *)
(*   raise E         a result [kind |-> "E"]; a normal return of v is      *)
(*                   [kind |-> "ok", val |-> v]                            *)
(***************************************************************************)
EXTENDS Integers, Sequences, FiniteSets, TLC

VARIABLES
    frames,         \* MatrixContent.frames: a list of references to Frames
    current_index,  \* MatrixContent.current_index
    heap,           \* the Frame objects, by reference: heap[f].elements
    call,           \* the last call made on the document, with the target
                    \* frame's elements before it (history)
    prevCall,       \* the call before that, when it was an add (history)
    ret,            \* what the last call returned or raised
    newCount,       \* how many new_frame() calls were made (history)
    piece,          \* the ContentPiece last constructed
    pieceRet,       \* what piece.flatten() returned
    image,          \* the Image last constructed (its decoded bitmap)
    imgRet          \* what image.flatten() returned or raised

vars == <<frames, current_index, heap, call, prevCall, ret, newCount,
          piece, pieceRet, image, imgRet>>
docVars == <<frames, current_index, heap, call, prevCall, ret, newCount>>
pieceVars == <<piece, pieceRet>>
imageVars == <<image, imgRet>>

(***************************************************************************)
(* Bounds of the model.                                                    *)
(***************************************************************************)
MaxFrames == 3      \* frames a MatrixContent grows to
MaxTotal == 3       \* elements the frames of a MatrixContent hold in all
NumElems == 2       \* distinct ContentPiece objects a caller adds
MaxCoord == 2       \* coordinates range over 0..MaxCoord
MaxW == 4           \* width of the small bitmaps
MaxH == 4           \* height of the small bitmaps
MaxM == 17          \* colours the small bitmaps are drawn from
BigW == 17          \* width of the large bitmaps
BigH == 16          \* height of the large bitmaps
ClashW == 9         \* width of the bitmaps of colours of one hash slot
ClashH == 8         \* height of those bitmaps
MaxClash == 36      \* colours of those bitmaps: MaxClash - 2 .. MaxClash
MaxPerm == 4        \* bitmaps of up to MaxPerm colours: getcolors() lists
                    \* them in every order
MaxRot == 2         \* bitmaps of more colours: getcolors() lists them in the
                    \* order of PIL's hash table and, besides, in the order
                    \* of first occurrence rotated by 0..MaxRot and in the
                    \* reverse of each

(***************************************************************************)
(* Python values.                                                          *)
(***************************************************************************)
None == [cls |-> "None"]
NoneRef == 0
NoVal == [kind |-> "none"]

Ok(v) == [kind |-> "ok", val |-> v]
Raise(e) == [kind |-> e]

DictMerge(a, b) == b @@ a

\* list[i] for a Python index i: from the end when i is negative.
ListIndexOk(list, i) == -Len(list) <= i /\ i < Len(list)
ListGet(list, i) == IF i >= 0 THEN list[i + 1] ELSE list[Len(list) + i + 1]

\* list.index(x): the first position holding x (0-based).
ListIndex(list, x) ==
    (CHOOSE i \in 1..Len(list) :
        list[i] = x /\ \A j \in 1..(i - 1) : list[j] # x) - 1

\* list.remove(x): the list without its first x.
ListRemove(list, x) ==
    LET i == ListIndex(list, x) + 1
    IN  SubSeq(list, 1, i - 1) \o SubSeq(list, i + 1, Len(list))

InList(list, x) == \E i \in 1..Len(list) : list[i] = x

(***************************************************************************)
(* Color and Location.                                                     *)
(***************************************************************************)
HexDigits == "0123456789abcdef"
HexDigit(d) == SubSeq(HexDigits, d + 1, d + 1)

RECURSIVE HexStr(_)
HexStr(n) == IF n < 16 THEN HexDigit(n) ELSE HexStr(n \div 16) \o HexDigit(n % 16)

\* format(n, "02x") for n >= 0: lowercase hex, zero-padded to two digits.
Format02x(n) == IF n < 16 THEN "0" \o HexDigit(n) ELSE HexStr(n)

Color(r, g, b) == [cls |-> "Color", r |-> r, g |-> g, b |-> b]
Location(x, y) == [cls |-> "Location", x |-> x, y |-> y]

hex(c) == "#" \o Format02x(c.r) \o Format02x(c.g) \o Format02x(c.b)

Color_flatten(c) == [color |-> hex(c)]
Location_flatten(l) == [x |-> l.x, y |-> l.y]

\* o.flatten() on whatever object o is: Python dispatches on o's class.
ValueFlatten(o) ==
    IF o.cls = "Color" THEN Color_flatten(o) ELSE Location_flatten(o)

(***************************************************************************)
(* ContentPiece and its variants.  Each X_init is X.__init__ and gives the *)
(* attributes of the object; each X_flatten is X.flatten.                  *)
(***************************************************************************)
ContentPiece_init(location, color) ==
    [color |-> IF color = None THEN Color(255, 255, 255) ELSE color,
     location |-> IF location = None THEN Location(0, 0) ELSE location]

ContentPiece_flatten(p) ==
    DictMerge(ValueFlatten(p.color), ValueFlatten(p.location))

Text_init(text, location, color) ==
    [cls |-> "Text", text |-> text] @@ ContentPiece_init(location, color)

Text_flatten(p) ==
    DictMerge([type |-> "text", text |-> p.text], ContentPiece_flatten(p))

Circle_init(radius, fill, location, color) ==
    [cls |-> "Circle", fill |-> fill, radius |-> radius]
        @@ ContentPiece_init(location, color)

Circle_flatten(p) ==
    DictMerge([type |-> "circle", radius |-> p.radius, fill |-> p.fill],
              ContentPiece_flatten(p))

Pixel_init(location, color) ==
    [cls |-> "Pixel"] @@ ContentPiece_init(location, color)

Pixel_flatten(p) == DictMerge([type |-> "pixel"], ContentPiece_flatten(p))

Triangle_init(p1, p2, p3, fill, color) ==
    [cls |-> "Triangle", p1 |-> p1, p2 |-> p2, p3 |-> p3, fill |-> fill]
        @@ ContentPiece_init(None, color)

Triangle_flatten(p) ==
    [type |-> "triangle",
     p1 |-> ValueFlatten(p.p1),
     p2 |-> ValueFlatten(p.p2),
     p3 |-> ValueFlatten(p.p3),
     color |-> ValueFlatten(p.color)]

\* Rectangle.__init__ hands (color, location) to ContentPiece.__init__,
\* whose parameters are (location, color).
Rectangle_init(width, height, fill, location, color) ==
    [cls |-> "Rectangle", width |-> width, height |-> height, fill |-> fill]
        @@ ContentPiece_init(color, location)

Rectangle_flatten(p) ==
    DictMerge([type |-> "rect", width |-> p.width, height |-> p.height,
               fill |-> p.fill],
              ContentPiece_flatten(p))

Line_init(start_location, end_location, color) ==
    [cls |-> "Line",
     end_location |-> IF end_location = None THEN Location(0, 0)
                      ELSE end_location]
        @@ ContentPiece_init(start_location, color)

Line_flatten(p) ==
    DictMerge([type |-> "line", end_location |-> ValueFlatten(p.end_location)],
              ContentPiece_flatten(p))

(***************************************************************************)
(* Image.  The decoded bitmap (PIL's Image.open(...).convert("RGB")) is a  *)
(* record [size |-> <<width, height>>, data |-> the pixels, row-major,     *)
(* each an <<r, g, b>>, listing |-> ...].  listing is the order in which   *)
(* getcolors() lists the distinct colours of this bitmap: PIL leaves it    *)
(* unspecified, so it is a parameter of the bitmap and may be any order of *)
(* its colours; the build lists them in the order of the slots of PIL's    *)
(* hash table (HashOrder below).                                           *)
(***************************************************************************)
MaxColors == 256    \* PIL: getcolors(maxcolors=256), the default the code uses

Distinct(data) == {data[i] : i \in 1..Len(data)}

Count(data, c) == Cardinality({i \in 1..Len(data) : data[i] = c})

\* The distinct colours in the order of their first occurrence.
FirstSeen(data) ==
    LET firsts == {i \in 1..Len(data) :
                       \A j \in 1..(i - 1) : data[j] # data[i]}
        rank == [i \in firsts |-> Cardinality({j \in firsts : j <= i})]
    IN  [k \in 1..Cardinality(firsts) |->
            data[CHOOSE i \in firsts : rank[i] = k]]

\* PIL's Image.getcolors(): a list of (count, colour), one per distinct
\* colour, or None when there are more than maxcolors colours.
getcolors(bitmap) ==
    IF Cardinality(Distinct(bitmap.data)) > MaxColors THEN None
    ELSE [cls |-> "list",
          items |-> [k \in 1..Len(bitmap.listing) |->
              <<Count(bitmap.data, bitmap.listing[k]), bitmap.listing[k]>>]]

\* Mutant of SortByCountDesc: the sort without reverse=True, smallest count
\* first.
SortByCountAsc(items) ==
    LET n == Len(items)
        pos == [i \in 1..n |->
                  Cardinality({j \in 1..n :
                      \/ items[j][1] < items[i][1]
                      \/ items[j][1] = items[i][1] /\ j < i}) + 1]
    IN  [k \in 1..n |-> items[CHOOSE i \in 1..n : pos[i] = k]]

\* colors.sort(key=lambda x: x[0], reverse=True): by count, largest first;
\* Python's sort is stable, also under reverse=True.
SortByCountDesc(items) ==
    LET n == Len(items)
        pos == [i \in 1..n |->
                  Cardinality({j \in 1..n :
                      \/ items[j][1] > items[i][1]
                      \/ items[j][1] = items[i][1] /\ j < i}) + 1]
    IN  [k \in 1..n |-> items[CHOOSE i \in 1..n : pos[i] = k]]

PixelHex(pixel) == hex(Color(pixel[1], pixel[2], pixel[3]))

Image_init(bitmap, location) ==
    [cls |-> "Image", image |-> bitmap] @@ ContentPiece_init(location, None)

Image_flatten(p) ==
    LET width == p.image.size[1]
        height == p.image.size[2]
        data == p.image.data
        gc == getcolors(p.image)
    IN  IF gc = None
        THEN Raise("TypeError")     \* len(None)
        ELSE IF \/ Len(gc.items) < 10
                \/ 2 * Len(gc.items) < p.image.size[1] * p.image.size[2]
        THEN LET sorted == SortByCountDesc(gc.items)
                 colors == [k \in 1..Len(sorted) |-> sorted[k][2]]
             IN  Ok([type |-> "image",
                     width |-> width,
                     height |-> height,
                     colors |-> [k \in 1..Len(colors) |-> PixelHex(colors[k])],
                     pixels |-> [i \in 1..Len(data) |->
                                    ListIndex(colors, data[i])],
                     location |-> ValueFlatten(p.location)])
        ELSE Ok([type |-> "image",
                 width |-> width,
                 height |-> height,
                 pixels |-> [i \in 1..Len(data) |-> PixelHex(data[i])]])

(***************************************************************************)
(* The bitmaps the model opens: width x height pixels drawn from m colours *)
(* in one of three arrangements, with the orders getcolors() may list      *)
(* their colours in.                                                       *)
(***************************************************************************)
RGBOf(k) == <<(10 + 37 * k) % 256, (20 + 255 * k) % 256, (30 + (k \div 256)) % 256>>

Patterns == {"cycle", "square", "pairs"}

PatternIndex(pat, i, m) ==
    CASE pat = "cycle" -> i % m
      [] pat = "square" -> (i * i) % m
      [] pat = "pairs" -> (i \div 2) % m

Pixels(w, h, m, pat) == [i \in 1..(w * h) |-> RGBOf(PatternIndex(pat, i - 1, m))]

\* Colours that differ in blue only: PIL's hash table starts all of them at
\* one slot and with one increment, so the k-th of them is entered after k
\* probes.
ClashRGBOf(k) == <<10, 20, (30 + k) % 256>>

ClashPixels(w, h, m, pat) ==
    [i \in 1..(w * h) |-> ClashRGBOf(PatternIndex(pat, i - 1, m))]

(***************************************************************************)
(* The order in which the build's getcolors() lists the colours: PIL's     *)
(* ImagingGetColors enters every pixel into an open-addressing hash table  *)
(* of CodeSize slots (the table size for maxcolors = 256) and then lists   *)
(* the used slots from the first to the last.                              *)
(***************************************************************************)
CodeSize == 512     \* slots of the table for maxcolors = 256
CodePoly == 17      \* the polynomial of the probe sequence for that size
CodeMask == CodeSize - 1
IncrHigh == 8388608 \* 2^23: the values of the bits of a 32-bit word above
                    \* the 9 bits of code_mask

RECURSIVE BitXor(_, _)
BitXor(a, b) ==
    IF a = 0 THEN b
    ELSE IF b = 0 THEN a
    ELSE ((a + b) % 2) + 2 * BitXor(a \div 2, b \div 2)

\* The 32-bit value of an RGB pixel: r in the lowest byte, the top byte 0.
PixelValue(c) == c[1] + 256 * c[2] + 65536 * c[3]

\* The table is the list of its used slots, each a <<slot, colour>>, in the
\* order in which they were taken.
SlotUsed(table, i) == \E k \in 1..Len(table) : table[k][1] = i
SlotTaken(table, i, c) ==
    \E k \in 1..Len(table) : table[k][1] = i /\ table[k][2] # c

\* incr << 1 on the 32-bit unsigned incr, xored with code_poly when the
\* result is above code_mask.  incr is held as its bits above code_mask
\* (high, IncrHigh of them) and its bits within code_mask (low): the shift
\* carries the top bit of low into high and drops the top bit of high, and
\* code_poly, which is below code_mask, changes low only.
NextIncr(incr) ==
    LET low == (2 * incr.low) % CodeSize
        high == (2 * incr.high + (2 * incr.low) \div CodeSize) % IncrHigh
    IN  IF high > 0
        THEN [high |-> high, low |-> BitXor(low, CodePoly)]
        ELSE [high |-> 0, low |-> low]

\* for (;;) { i = (i + incr) & code_mask; ...; incr = incr << 1;
\*            if (incr > code_mask) incr = incr ^ code_poly; }
RECURSIVE Probe(_, _, _, _)
Probe(table, c, i, incr) ==
    LET j == (i + incr.low) % CodeSize
    IN  IF ~SlotTaken(table, j, c) THEN j
        ELSE Probe(table, c, j, NextIncr(incr))

\* The slot of colour c: (~h) & code_mask when that slot is free or holds c,
\* else the first such slot of the probe sequence.
Slot(table, c) ==
    LET h == PixelValue(c)
        i == CodeMask - (h % CodeSize)
        x == BitXor(h, h \div 8) % CodeSize
        incr == IF x = 0 THEN CodeMask ELSE x
    IN  IF ~SlotTaken(table, i, c) THEN i
        ELSE Probe(table, c, i, [high |-> 0, low |-> incr])

\* The table after one more pixel is entered; nothing is entered once the
\* colour after the MaxColors-th was met (getcolors() then gives None).
Enter(t, c) ==
    LET s == Slot(t.table, c)
    IN  IF t.overflow \/ SlotUsed(t.table, s) THEN t
        ELSE IF Len(t.table) = MaxColors
        THEN [table |-> t.table, overflow |-> TRUE]
        ELSE [table |-> Append(t.table, <<s, c>>), overflow |-> FALSE]

\* The table after the pixels lo..hi of data are entered, row by row.
RECURSIVE Fill(_, _, _, _)
Fill(t, data, lo, hi) ==
    IF lo > hi THEN t
    ELSE IF lo = hi THEN Enter(t, data[lo])
    ELSE LET mid == (lo + hi) \div 2
             left == Fill(t, data, lo, mid)
         IN  IF left.overflow THEN left ELSE Fill(left, data, mid + 1, hi)

\* The colours of the used slots, from the first slot to the last.
Pack(table) ==
    LET n == Len(table)
        rank == [i \in 1..n |->
                    Cardinality({j \in 1..n : table[j][1] <= table[i][1]})]
    IN  [k \in 1..n |-> table[CHOOSE i \in 1..n : rank[i] = k][2]]

HashOrder(data) ==
    Pack(Fill([table |-> <<>>, overflow |-> FALSE], data, 1, Len(data)).table)

\* The orders of 1..d.
PermsOf(d) ==
    {p \in [1..d -> 1..d] : \A i, j \in 1..d : i # j => p[i] # p[j]}

Rotated(s, r) == [k \in 1..Len(s) |-> s[((k - 1 + r) % Len(s)) + 1]]
Reversed(s) == [k \in 1..Len(s) |-> s[Len(s) + 1 - k]]

\* The listings of the colours of data that the model draws from: the order
\* of the build's hash table and, the order being unspecified by PIL, every
\* other order for up to MaxPerm colours and a sample of them for more.
Listings(data) ==
    LET base == FirstSeen(data)
        d == Len(base)
    IN  {HashOrder(data)} \cup
        (IF d <= MaxPerm
         THEN {[k \in 1..d |-> base[p[k]]] : p \in PermsOf(d)}
         ELSE {Rotated(base, r) : r \in 0..MaxRot}
                  \cup {Reversed(Rotated(base, r)) : r \in 0..MaxRot})

Bitmap(w, h, data, listing) ==
    [size |-> <<w, h>>, data |-> data, listing |-> listing]

\* p.flatten() on whatever ContentPiece p is.
PieceFlatten(p) ==
    CASE p.cls = "Text" -> Ok(Text_flatten(p))
      [] p.cls = "Circle" -> Ok(Circle_flatten(p))
      [] p.cls = "Pixel" -> Ok(Pixel_flatten(p))
      [] p.cls = "Triangle" -> Ok(Triangle_flatten(p))
      [] p.cls = "Rectangle" -> Ok(Rectangle_flatten(p))
      [] p.cls = "Line" -> Ok(Line_flatten(p))
      [] p.cls = "Image" -> Image_flatten(p)

(***************************************************************************)
(* Constructing a ContentPiece and flattening it.  piece records the       *)
(* object with the arguments of the constructor call that made it          *)
(* (given |-> which optional arguments the caller passed).                 *)
(***************************************************************************)
Coords == 0..MaxCoord
Locations == {Location(x, y) : x \in Coords, y \in Coords}
LocationArgs == {None} \cup Locations
ColorArgs == {None, Color(0, 255, 0), Color(255, 0, 0), Color(10, 20, 30)}
Sizes == {3, 5}
Texts == {"", "hi"}
ImageLocations == {None, Location(1, 2)}

\* The value of the parameter fill (fill: bool = True): the default when the
\* caller omits it.  The constructors below draw "given \/ fill" so that an
\* omitted fill is drawn once.
FillArg(given, fill) == IF given THEN fill ELSE TRUE

Made(obj, args) == [obj |-> obj, args |-> args]

NewPixel ==
    /\ piece = None
    /\ \E location \in LocationArgs, color \in ColorArgs :
          piece' = Made(Pixel_init(location, color),
                        [location |-> location, color |-> color])
    /\ pieceRet' = NoVal
    /\ UNCHANGED <<docVars, imageVars>>

NewText ==
    /\ piece = None
    /\ \E text \in Texts, location \in LocationArgs, color \in ColorArgs :
          piece' = Made(Text_init(text, location, color),
                        [text |-> text, location |-> location, color |-> color])
    /\ pieceRet' = NoVal
    /\ UNCHANGED <<docVars, imageVars>>

NewCircle ==
    /\ piece = None
    /\ \E radius \in Sizes, given \in BOOLEAN, fill \in BOOLEAN,
          location \in LocationArgs, color \in ColorArgs :
          /\ given \/ fill
          /\ piece' = Made(Circle_init(radius, FillArg(given, fill),
                                       location, color),
                           [radius |-> radius, fillGiven |-> given,
                            fill |-> FillArg(given, fill),
                            location |-> location, color |-> color])
    /\ pieceRet' = NoVal
    /\ UNCHANGED <<docVars, imageVars>>

NewRectangle ==
    /\ piece = None
    /\ \E width \in Sizes, height \in Sizes, given \in BOOLEAN,
          fill \in BOOLEAN, location \in LocationArgs, color \in ColorArgs :
          /\ given \/ fill
          /\ piece' = Made(Rectangle_init(width, height, FillArg(given, fill),
                                          location, color),
                           [width |-> width, height |-> height,
                            fillGiven |-> given,
                            fill |-> FillArg(given, fill),
                            location |-> location, color |-> color])
    /\ pieceRet' = NoVal
    /\ UNCHANGED <<docVars, imageVars>>

NewTriangle ==
    /\ piece = None
    /\ \E p1 \in Locations, p2 \in Locations, p3 \in Locations,
          given \in BOOLEAN, fill \in BOOLEAN, color \in ColorArgs :
          /\ given \/ fill
          /\ piece' = Made(Triangle_init(p1, p2, p3, FillArg(given, fill),
                                         color),
                           [p1 |-> p1, p2 |-> p2, p3 |-> p3,
                            fillGiven |-> given,
                            fill |-> FillArg(given, fill), color |-> color])
    /\ pieceRet' = NoVal
    /\ UNCHANGED <<docVars, imageVars>>

NewLine ==
    /\ piece = None
    /\ \E start_location \in LocationArgs, end_location \in LocationArgs,
          color \in ColorArgs :
          piece' = Made(Line_init(start_location, end_location, color),
                        [start_location |-> start_location,
                         end_location |-> end_location, color |-> color])
    /\ pieceRet' = NoVal
    /\ UNCHANGED <<docVars, imageVars>>

FlattenPiece ==
    /\ piece # None
    /\ pieceRet = NoVal
    /\ pieceRet' = PieceFlatten(piece.obj)
    /\ UNCHANGED <<piece, docVars, imageVars>>

(***************************************************************************)
(* Opening an Image and flattening it.                                     *)
(***************************************************************************)
BigColors == {3, (BigW * BigH) \div 2 - 16, MaxColors - 1, MaxColors,
              MaxColors + 1}

NewImage ==
    /\ image = None
    /\ \E w \in 1..MaxW, h \in 1..MaxH, m \in 1..MaxM, pat \in Patterns,
          location \in ImageLocations :
          \E listing \in Listings(Pixels(w, h, m, pat)) :
              image' = Made(Image_init(Bitmap(w, h, Pixels(w, h, m, pat),
                                              listing), location),
                            [location |-> location])
    /\ imgRet' = NoVal
    /\ UNCHANGED <<docVars, pieceVars>>

NewBigImage ==
    /\ image = None
    /\ \E m \in BigColors, pat \in Patterns, location \in ImageLocations :
          \E listing \in Listings(Pixels(BigW, BigH, m, pat)) :
              image' = Made(Image_init(Bitmap(BigW, BigH,
                                              Pixels(BigW, BigH, m, pat),
                                              listing), location),
                            [location |-> location])
    /\ imgRet' = NoVal
    /\ UNCHANGED <<docVars, pieceVars>>

NewClashImage ==
    /\ image = None
    /\ \E m \in (MaxClash - 2)..MaxClash, pat \in Patterns,
          location \in ImageLocations :
          \E listing \in Listings(ClashPixels(ClashW, ClashH, m, pat)) :
              image' = Made(Image_init(Bitmap(ClashW, ClashH,
                                              ClashPixels(ClashW, ClashH, m, pat),
                                              listing), location),
                            [location |-> location])
    /\ imgRet' = NoVal
    /\ UNCHANGED <<docVars, pieceVars>>

FlattenImage ==
    /\ image # None
    /\ imgRet = NoVal
    /\ imgRet' = Image_flatten(image.obj)
    /\ UNCHANGED <<image, docVars, pieceVars>>

(***************************************************************************)
(* Frame and MatrixContent.  A Frame is an object on the heap, known by    *)
(* its reference (its position in heap); frames holds references.  The     *)
(* ContentPieces a caller adds are the objects ElemObj(1..NumElems); an    *)
(* element is known by its identity e, which is what list.remove compares  *)
(* (no class defines __eq__).                                              *)
(***************************************************************************)
Elems == 1..NumElems

ElemObj(e) ==
    CASE e % 4 = 1 -> Pixel_init(None, None)
      [] e % 4 = 2 ->
            LET data == Pixels(BigW, BigH, MaxColors + 1, "cycle")
            IN  Image_init(Bitmap(BigW, BigH, data, HashOrder(data)), None)
      [] e % 4 = 3 -> Rectangle_init(5, 3, TRUE, Location(2, 2), Color(0, 255, 0))
      [] e % 4 = 0 ->
            LET data == Pixels(2, 2, 1, "cycle")
            IN  Image_init(Bitmap(2, 2, data, HashOrder(data)), Location(1, 1))

\* element.flatten() of every element a caller may add.
ElemFlat == [e \in Elems |-> PieceFlatten(ElemObj(e))]

\* [x.flatten() for x in ...]: the results in order, or the first exception.
FlattenAll(results) ==
    IF \E k \in 1..Len(results) : results[k].kind # "ok"
    THEN results[CHOOSE k \in 1..Len(results) :
                    /\ results[k].kind # "ok"
                    /\ \A j \in 1..(k - 1) : results[j].kind = "ok"]
    ELSE Ok([k \in 1..Len(results) |-> results[k].val])

Frame_init(elements, duration) ==
    [cls |-> "Frame",
     elements |-> IF elements = None THEN <<>> ELSE elements,
     duration |-> duration]

Frame_flatten(f) ==
    LET elements == FlattenAll([k \in 1..Len(f.elements) |->
                                   ElemFlat[f.elements[k]]])
    IN  IF elements.kind # "ok" THEN elements
        ELSE Ok([type |-> "frame",
                 duration |-> f.duration,
                 elements |-> elements.val])

\* ref.flatten() for a reference held in MatrixContent.frames.
RefFlatten(ref) ==
    IF ref = NoneRef THEN Raise("AttributeError") ELSE Frame_flatten(heap[ref])

MatrixContent_flatten ==
    LET fs == FlattenAll([k \in 1..Len(frames) |-> RefFlatten(frames[k])])
    IN  IF fs.kind # "ok" THEN fs
        ELSE Ok([type |-> "matrix", frames |-> fs.val])

TotalLen == Cardinality({<<f, k>> \in (DOMAIN heap) \X (1..MaxTotal) :
                            k <= Len(heap[f].elements)})

Call(op, f, e, hasIndex, index) ==
    [op |-> op, frame |-> f, elem |-> e, hasIndex |-> hasIndex,
     index |-> index,
     pre |-> IF f = NoneRef THEN <<>> ELSE heap[f].elements]
NoCall == [op |-> "none", frame |-> NoneRef, elem |-> 0, hasIndex |-> FALSE,
           index |-> 0, pre |-> <<>>]
\* What prevCall keeps of the last call when the next one is made.
Earlier == IF call.op = "add" THEN call ELSE NoCall

\* MatrixContent()
Init ==
    /\ heap = <<Frame_init(None, 0)>>
    /\ frames = <<1>>
    /\ current_index = 0
    /\ call = NoCall
    /\ prevCall = NoCall
    /\ ret = NoVal
    /\ newCount = 0
    /\ piece = None
    /\ pieceRet = NoVal
    /\ image = None
    /\ imgRet = NoVal

\* Mutant of frame_result: a lookup that refuses negative indices.
frame_result_NoNegative(hasIndex, index) ==
    LET i == IF hasIndex THEN index ELSE current_index
    IN  IF 0 <= i /\ i < Len(frames) THEN Ok(frames[i + 1])
        ELSE Raise("IndexError")

\* MatrixContent.frame(index), and frame() when hasIndex is FALSE.
frame_result(hasIndex, index) ==
    LET i == IF hasIndex THEN index ELSE current_index
    IN  IF ListIndexOk(frames, i) THEN Ok(ListGet(frames, i))
        ELSE Raise("IndexError")

frame ==
    \E hasIndex \in BOOLEAN, index \in (-MaxFrames - 1)..(MaxFrames + 1) :
        /\ hasIndex \/ index = 0
        /\ ret' = frame_result(hasIndex, index)
        /\ call' = Call("frame", NoneRef, 0, hasIndex, index)
        /\ prevCall' = Earlier
        /\ UNCHANGED <<frames, current_index, heap, newCount, pieceVars,
                       imageVars>>

\* Mutant of new_frame: the cursor is not advanced.
new_frame_NoAdvance ==
    /\ Len(frames) < MaxFrames
    /\ current_index' = current_index
    /\ heap' = Append(heap, Frame_init(None, 0))
    /\ frames' = Append(frames, Len(heap) + 1)
    /\ ret' = IF ListIndexOk(frames', current_index')
              THEN Ok(ListGet(frames', current_index'))
              ELSE Raise("IndexError")
    /\ call' = Call("new_frame", NoneRef, 0, FALSE, 0)
    /\ prevCall' = Earlier
    /\ newCount' = newCount + 1
    /\ UNCHANGED <<pieceVars, imageVars>>

\* MatrixContent.new_frame()
new_frame ==
    /\ Len(frames) < MaxFrames
    /\ current_index' = current_index + 1
    /\ heap' = Append(heap, Frame_init(None, 0))
    /\ frames' = Append(frames, Len(heap) + 1)
    /\ ret' = IF ListIndexOk(frames', current_index')
              THEN Ok(ListGet(frames', current_index'))
              ELSE Raise("IndexError")
    /\ call' = Call("new_frame", NoneRef, 0, FALSE, 0)
    /\ prevCall' = Earlier
    /\ newCount' = newCount + 1
    /\ UNCHANGED <<pieceVars, imageVars>>

\* Mutant of add_effect: the element is put first, not last.
add_effect_Prepend(f, element) ==
    heap' = [heap EXCEPT ![f].elements = <<element>> \o @]

\* Frame.add(element) on the Frame f.
add_effect(f, element) ==
    heap' = [heap EXCEPT ![f].elements = Append(@, element)]

add ==
    \E f \in DOMAIN heap, element \in Elems :
        /\ TotalLen < MaxTotal
        /\ add_effect(f, element)
        /\ ret' = Ok(None)
        /\ call' = Call("add", f, element, FALSE, 0)
        /\ prevCall' = Earlier
        /\ UNCHANGED <<frames, current_index, newCount, pieceVars, imageVars>>

\* Mutant of remove_effect: the last occurrence is deleted, not the first.
remove_effect_Last(f, element) ==
    IF InList(heap[f].elements, element)
    THEN LET s == heap[f].elements
             i == CHOOSE i \in 1..Len(s) :
                     s[i] = element /\ \A j \in (i + 1)..Len(s) : s[j] # element
         IN  /\ heap' = [heap EXCEPT ![f].elements =
                            SubSeq(s, 1, i - 1) \o SubSeq(s, i + 1, Len(s))]
             /\ ret' = Ok(None)
    ELSE /\ heap' = heap
         /\ ret' = Raise("ValueError")

\* Frame.remove(element) on the Frame f.
remove_effect(f, element) ==
    IF InList(heap[f].elements, element)
    THEN /\ heap' = [heap EXCEPT ![f].elements = ListRemove(@, element)]
         /\ ret' = Ok(None)
    ELSE /\ heap' = heap
         /\ ret' = Raise("ValueError")

remove ==
    \E f \in DOMAIN heap, element \in Elems :
        /\ remove_effect(f, element)
        /\ call' = Call("remove", f, element, FALSE, 0)
        /\ prevCall' = Earlier
        /\ UNCHANGED <<frames, current_index, newCount, pieceVars, imageVars>>

\* MatrixContent.flatten()
flatten ==
    /\ ret' = MatrixContent_flatten
    /\ call' = Call("flatten", NoneRef, 0, FALSE, 0)
    /\ prevCall' = Earlier
    /\ UNCHANGED <<frames, current_index, heap, newCount, pieceVars, imageVars>>

Next == frame \/ new_frame \/ add \/ remove \/ flatten

Spec == Init /\ [][Next]_vars

NextPieces ==
    \/ NewPixel \/ NewText \/ NewCircle \/ NewRectangle \/ NewTriangle
    \/ NewLine \/ FlattenPiece

SpecPieces == Init /\ [][NextPieces]_vars

NextImage == NewImage \/ NewBigImage \/ NewClashImage \/ FlattenImage

SpecImage == Init /\ [][NextImage]_vars

(***************************************************************************)
(* The += operator on a Frame.  Frame.__iadd__ calls add and returns       *)
(* nothing, and Python binds the target of "target += x" to what __iadd__  *)
(* returned.  iadd_slot is the statement "content.frames[index] += e",     *)
(* iadd_var is "v += e" for a caller's variable v that refers to Frame f;  *)
(* ret is the value the target is bound to afterwards.                     *)
(***************************************************************************)
Frame_iadd(f, other) ==
    /\ add_effect(f, other)
    /\ ret' = Ok(NoneRef)

iadd_slot ==
    \E index \in 0..(Len(frames) - 1), other \in Elems :
        /\ TotalLen < MaxTotal
        /\ IF frames[index + 1] = NoneRef
           THEN /\ ret' = Raise("TypeError")
                /\ UNCHANGED <<frames, heap>>
           ELSE /\ Frame_iadd(frames[index + 1], other)
                /\ frames' = [frames EXCEPT ![index + 1] = ret'.val]
        /\ call' = Call("iadd_slot", frames[index + 1], other, TRUE, index)
        /\ prevCall' = Earlier
        /\ UNCHANGED <<current_index, newCount, pieceVars, imageVars>>

iadd_var ==
    \E f \in DOMAIN heap, other \in Elems :
        /\ TotalLen < MaxTotal
        /\ Frame_iadd(f, other)
        /\ call' = Call("iadd_var", f, other, FALSE, 0)
        /\ prevCall' = Earlier
        /\ UNCHANGED <<frames, current_index, newCount, pieceVars, imageVars>>

NextIAdd == Next \/ iadd_slot \/ iadd_var

SpecIAdd == Init /\ [][NextIAdd]_vars

(***************************************************************************)
(* Properties.                                                             *)
(***************************************************************************)
Elements(f) == heap[f].elements

\* The sequence s without the element at position i.
Without(s, i) == [k \in 1..(Len(s) - 1) |-> IF k < i THEN s[k] ELSE s[k + 1]]

\* The position of the first x in s.
FirstAt(s, x) == CHOOSE i \in 1..Len(s) : s[i] = x /\ \A j \in 1..(i - 1) : s[j] # x

\* C1: a new MatrixContent holds exactly one empty Frame; after N new_frame()
\* calls, interleaved with any frame(), add and remove calls, it holds N + 1
\* frames and current_index is the index of the last one; each new_frame()
\* returns the frame it just appended, and frame() without an index returns
\* the most recently created frame.
C1_FramesAndCursor ==
    /\ newCount = 0 /\ call.op = "none"
          => frames = <<1>> /\ Len(heap) = 1 /\ Elements(1) = <<>>
    /\ Len(frames) = newCount + 1
    /\ current_index = Len(frames) - 1
    /\ \A k \in 1..Len(frames) : frames[k] = k
    /\ call.op = "new_frame"
          => /\ ret = Ok(frames[Len(frames)])
             /\ ret.val = Len(heap)
             /\ Elements(ret.val) = <<>>
    /\ call.op = "frame" /\ ~call.hasIndex => ret = Ok(frames[Len(frames)])

C1_Witness ==
    /\ newCount = 2
    /\ call.op = "frame" /\ ~call.hasIndex
    /\ ret = Ok(3)
    /\ Elements(1) # <<>>

\* C5 as claimed: for every element e, also one that already occurs in the
\* frame, add(e) followed immediately by remove(e) leaves the frame's element
\* sequence as it was before the add.
C5_AddRemoveRestores ==
    (/\ call.op = "remove" /\ prevCall.op = "add"
     /\ call.frame = prevCall.frame /\ call.elem = prevCall.elem)
        => Elements(call.frame) = prevCall.pre

\* C5 amended: add(e) followed immediately by remove(e) leaves the sequence
\* as it was before the add when e did not occur in it; when e occurred, the
\* pair removes e's first occurrence and leaves e at the end.
C5_AddRemoveFirstOccurrence ==
    (/\ call.op = "remove" /\ prevCall.op = "add"
     /\ call.frame = prevCall.frame /\ call.elem = prevCall.elem)
        => LET before == prevCall.pre
               e == call.elem
           IN  /\ ret = Ok(None)
               /\ ~InList(before, e) => Elements(call.frame) = before
               /\ InList(before, e) =>
                     Elements(call.frame) =
                         Without(before, FirstAt(before, e)) \o <<e>>

C5_Witness ==
    /\ call.op = "remove" /\ prevCall.op = "add"
    /\ call.frame = prevCall.frame /\ call.elem = prevCall.elem
    /\ prevCall.pre # <<>>
    /\ ~InList(prevCall.pre, call.elem)
    /\ Elements(call.frame) = prevCall.pre

\* C6 as claimed: frame(index) returns the frame at position index when
\* 0 <= index < number of frames and fails with IndexError for every other
\* index, negative ones included; a failed lookup changes nothing.
C6_NegativeIndexFails ==
    /\ [](call.op = "frame" /\ call.hasIndex =>
            IF 0 <= call.index /\ call.index < Len(frames)
            THEN ret = Ok(frames[call.index + 1])
            ELSE ret = Raise("IndexError"))
    /\ [][call'.op = "frame" /\ ret'.kind = "IndexError"
            => UNCHANGED <<frames, current_index, heap>>]_vars

\* C6 amended: with n frames, frame(index) returns the frame at position
\* index when 0 <= index < n, the frame at position n + index when
\* -n <= index < 0, and fails with IndexError when index >= n or index < -n;
\* a failed lookup changes nothing.
C6_FrameLookup ==
    /\ [](call.op = "frame" /\ call.hasIndex =>
            LET n == Len(frames)
                i == call.index
            IN  /\ 0 <= i /\ i < n => ret = Ok(frames[i + 1])
                /\ -n <= i /\ i < 0 => ret = Ok(frames[n + i + 1])
                /\ i >= n \/ i < -n => ret = Raise("IndexError"))
    /\ [][call'.op = "frame" /\ ret'.kind = "IndexError"
            => UNCHANGED <<frames, current_index, heap>>]_vars

C6_Witness ==
    /\ call.op = "frame" /\ call.hasIndex
    /\ Len(frames) = 3
    /\ call.index = -2
    /\ ret = Ok(frames[2])

\* C7: remove(e) for an e that is not in the frame fails (ValueError) and
\* leaves the element sequence unchanged; when e is in the frame it deletes
\* only the first occurrence and keeps the order of all other elements.
C7_RemoveFirstOrFail ==
    call.op = "remove" =>
        LET before == call.pre
            after == Elements(call.frame)
            e == call.elem
        IN  IF \A k \in 1..Len(before) : before[k] # e
            THEN ret = Raise("ValueError") /\ after = before
            ELSE /\ ret = Ok(None)
                 /\ Len(after) = Len(before) - 1
                 /\ \E i \in 1..Len(before) :
                       /\ before[i] = e
                       /\ \A j \in 1..(i - 1) : before[j] # e
                       /\ \A k \in 1..(i - 1) : after[k] = before[k]
                       /\ \A k \in i..Len(after) : after[k] = before[k + 1]

C7_Witness ==
    /\ call.op = "remove"
    /\ call.elem = 1
    /\ call.pre = <<2, 1, 1>>
    /\ Elements(call.frame) = <<2, 1>>

\* The entry MatrixContent.flatten must hold for the Frame f.
ExpectedFrameEntry(f) ==
    [type |-> "frame",
     duration |-> heap[f].duration,
     elements |-> [k \in 1..Len(Elements(f)) |-> ElemFlat[Elements(f)[k]].val]]

\* C8: after any sequence of new_frame() and add calls, flatten() yields
\* {type: "matrix", frames: [...]} with one entry per frame in creation
\* order, each {type: "frame", duration, elements} with the frame's
\* flattened elements in the order they were added.
\* Adding to one frame never changes another frame's entry.
C8_FlattenYieldsFrames ==
    /\ [](call.op = "flatten" =>
            /\ ret.kind = "ok"
            /\ DOMAIN ret.val = {"type", "frames"}
            /\ ret.val.type = "matrix"
            /\ Len(ret.val.frames) = Len(frames)
            /\ \A k \in 1..Len(frames) :
                  ret.val.frames[k] = ExpectedFrameEntry(frames[k]))
    /\ [][call'.op = "add" =>
            \A g \in DOMAIN heap :
                g # call'.frame => Frame_flatten(heap'[g]) = Frame_flatten(heap[g])]_vars

\* C10: "+=" on a Frame appends the element to that frame and nothing more:
\* the slot or variable that held the Frame still refers to the same Frame,
\* so a MatrixContent whose slot was updated with "+=" can be flattened.
C10_IAddKeepsFrame ==
    /\ call.op \in {"iadd_slot", "iadd_var"}
          => /\ ret = Ok(call.frame)
             /\ Elements(call.frame) = Append(call.pre, call.elem)
    /\ call.op = "iadd_slot" => frames[call.index + 1] = call.frame
    /\ call.op = "flatten" => ret.kind # "AttributeError"

\* The argument, or the default that stands for it when it is omitted.
Given(arg, default) == IF arg = None THEN default ELSE arg

Flattened == piece # None /\ pieceRet # NoVal

HasField(v, k, x) == k \in DOMAIN v /\ v[k] = x

\* C4: whichever of location and color are given or omitted, a Rectangle
\* flattens to type "rect", the given width, height and fill, color the hex
\* form of the given color (white when omitted) and x, y the given location
\* ((0, 0) when omitted).
C4_RectangleFlatten ==
    Flattened /\ piece.obj.cls = "Rectangle" =>
        LET a == piece.args
            location == Given(a.location, Location(0, 0))
            color == Given(a.color, Color(255, 255, 255))
        IN  pieceRet = Ok([type |-> "rect",
                           width |-> a.width,
                           height |-> a.height,
                           fill |-> a.fill,
                           color |-> hex(color),
                           x |-> location.x,
                           y |-> location.y])

\* C9: every variant's flatten result carries the variant's own fields; in
\* particular the result of a Circle, a Rectangle and a Triangle has a fill
\* entry equal to the flag passed at construction (true when omitted).
C9_OwnFields ==
    Flattened =>
        LET cls == piece.obj.cls
            a == piece.args
            v == pieceRet.val
        IN  /\ pieceRet.kind = "ok"
            /\ cls \in {"Circle", "Rectangle", "Triangle"}
                  => HasField(v, "fill", a.fill)
            /\ cls = "Text" => HasField(v, "text", a.text)
            /\ cls = "Circle" => HasField(v, "radius", a.radius)
            /\ cls = "Rectangle"
                  => HasField(v, "width", a.width)
                     /\ HasField(v, "height", a.height)
            /\ cls = "Triangle"
                  => /\ HasField(v, "p1", Location_flatten(a.p1))
                     /\ HasField(v, "p2", Location_flatten(a.p2))
                     /\ HasField(v, "p3", Location_flatten(a.p3))
            /\ cls = "Line"
                  => HasField(v, "end_location",
                         Location_flatten(Given(a.end_location, Location(0, 0))))

ImageFlattened == image # None /\ imgRet # NoVal

\* How many pixels of data have the hex form h.
CountHex(data, h) == Cardinality({i \in 1..Len(data) : PixelHex(data[i]) = h})

\* C2: for a bitmap of width W and height H with D distinct colours,
\* Image.flatten uses the palette encoding (a colors list and integer
\* pixels) exactly when D < 10 or D < W*H/2, and otherwise the raw encoding:
\* no colors key, and pixels exactly the W*H hex strings in row-major order.
C2_EncodingChoice ==
    ImageFlattened =>
        LET data == image.obj.image.data
            W == image.obj.image.size[1]
            H == image.obj.image.size[2]
            D == Cardinality(Distinct(data))
        IN  /\ imgRet.kind = "ok"
            /\ IF D < 10 \/ 2 * D < W * H
               THEN /\ "colors" \in DOMAIN imgRet.val
                    /\ \A i \in 1..Len(imgRet.val.pixels) :
                          imgRet.val.pixels[i] \in Nat
               ELSE /\ "colors" \notin DOMAIN imgRet.val
                    /\ Len(imgRet.val.pixels) = W * H
                    /\ \A i \in 1..(W * H) :
                          imgRet.val.pixels[i] = PixelHex(data[i])

PaletteResult ==
    /\ ImageFlattened
    /\ imgRet.kind = "ok"
    /\ "colors" \in DOMAIN imgRet.val

\* C3: on the palette path, colors lists every distinct colour of the bitmap
\* exactly once, in non-increasing order of occurrence count; pixels has
\* W*H entries in row-major order and colors[pixels[i]] is the hex form of
\* pixel i; a bitmap of one colour gives a one-entry palette and all
\* indices 0.
C3_PaletteDecodes ==
    PaletteResult =>
        LET data == image.obj.image.data
            W == image.obj.image.size[1]
            H == image.obj.image.size[2]
            D == Cardinality(Distinct(data))
            colors == imgRet.val.colors
            pixels == imgRet.val.pixels
        IN  /\ Len(colors) = D
            /\ {colors[k] : k \in 1..Len(colors)}
                  = {PixelHex(c) : c \in Distinct(data)}
            /\ \A j, k \in 1..Len(colors) : j # k => colors[j] # colors[k]
            /\ \A k \in 1..(Len(colors) - 1) :
                  CountHex(data, colors[k]) >= CountHex(data, colors[k + 1])
            /\ Len(pixels) = W * H
            /\ \A i \in 1..(W * H) :
                  /\ pixels[i] \in 0..(Len(colors) - 1)
                  /\ colors[pixels[i] + 1] = PixelHex(data[i])
            /\ D = 1 => Len(colors) = 1 /\ \A i \in 1..(W * H) : pixels[i] = 0

C3_Witness ==
    /\ PaletteResult
    /\ \E k \in 1..Len(imgRet.val.colors) :
          imgRet.val.colors[k] # PixelHex(image.obj.image.listing[k])
    /\ Len(imgRet.val.colors) >= 3
    /\ CountHex(image.obj.image.data, imgRet.val.colors[1])
          > CountHex(image.obj.image.data,
                     imgRet.val.colors[Len(imgRet.val.colors)])
    /\ imgRet.val.pixels[1] # 0
====
